---- MODULE Spec2Model ----
(***************************************************************************)
(* Bananabread::Handlers::handle (vm/src/handlers.cpp): the per-step       *)
(* dispatch function of the bytecode VM.  It classifies one decoded        *)
(* instruction with three dynamic_casts and returns a freshly allocated    *)
(* Dispatch::Action: Cont, Stop or Error(message).                         *)
(*                                                                         *)
(* Two specifications are given.  Spec is a call harness: a caller holds   *)
(* an instruction pointer, a register state and an operand stack and calls *)
(* handle repeatedly.  LoopSpec is the driving loop that walks a finite    *)
(* program and acts on each decision.                                      *)
(***************************************************************************)
EXTENDS Integers, Sequences, FiniteSets, TLC

\* ---------------------------------------------------------------- bounds
MaxStack == 2      \* deepest operand stack the caller starts with
MaxCalls == 2      \* calls the harness makes on one input
MaxProg  == 3      \* longest program the driving loop walks

\* ------------------------------------------------------- instruction model
\* The null Instruction::Code*.
NULL == [kind |-> "nullptr"]

LabelNames == {"loop_start", "end"}
Payloads   == {0, 42}

\* Objects of the three modeled classes and of two classes outside them.
Instructions ==
       {[kind |-> "Label", name |-> n] : n \in LabelNames}
  \cup {[kind |-> "Value", value |-> v] : v \in Payloads}
  \cup {[kind |-> "Halt"]}
  \cup {[kind |-> "Jump", target |-> n] : n \in {"end"}}
  \cup {[kind |-> "Add"]}

\* What an Instruction::Code* can hold.
CodePtrs == Instructions \cup {NULL}

\* Whether an object of dynamic type `kind` is a T: the variant classes are
\* siblings under Instruction::Code, none derives from another.
IsA(kind, T) == kind = T

\* dynamic_cast<Instruction::T*>(code): the pointer itself when it points to
\* a T, the null pointer otherwise; a null pointer casts to a null pointer.
dynamic_castLoose(T, code) ==
  IF code # NULL /\ (IsA(code.kind, T) \/ (T = "Label" /\ code.kind = "Halt"))
  THEN code ELSE NULL

dynamic_cast(T, code) ==
  IF code # NULL /\ IsA(code.kind, T) THEN code ELSE NULL

\* ---------------------------------------------------------- machine state
\* VM::Registers values.
RegisterStates == [pc : 0 .. 1]

RECURSIVE SeqsUpTo(_, _)
SeqsUpTo(S, n) ==
  IF n = 0 THEN {<<>>}
  ELSE LET shorter == SeqsUpTo(S, n - 1)
       IN  shorter \cup {Append(s, x) : s \in {t \in shorter : Len(t) = n - 1}, x \in S}

\* std::stack<Value::Base> contents, bottom first.
Stacks == SeqsUpTo(Payloads, MaxStack)

\* --------------------------------------------------------- dispatch model
Cont       == [variant |-> "Cont"]
Stop       == [variant |-> "Stop"]
Error(msg) == [variant |-> "Error", message |-> msg]

\* The outcome of a call that does not return a decision.
NoDecision == [variant |-> "none"]

VARIABLES
  code,      \* the caller's instruction pointer
  reg,       \* the caller's registers
  stack,     \* the caller's operand stack
  returned,  \* the calls made so far, oldest first
  program,   \* the driving loop's instruction sequence
  run        \* the driving loop's state

vars == <<code, reg, stack, returned, program, run>>

\* ------------------------------------------------------------------ handle
UnhandledMessage == "internal error: unhandled instruction"

\* What the caller has after a call: the returned decision, and its own
\* registers and operand stack.
Outcome(a, r, s) == [action |-> a, reg |-> r, stack |-> s]

\* Variants of handle with one fault each.
handleDefaultCont(c, r, s) ==
  IF dynamic_cast("Label", c) # NULL THEN Outcome(Cont, r, s)
  ELSE IF dynamic_cast("Value", c) # NULL THEN Outcome(Cont, r, s)
  ELSE IF dynamic_cast("Halt", c) # NULL THEN Outcome(Stop, r, s)
  ELSE Outcome(Cont, r, s)

handleHaltCont(c, r, s) ==
  IF dynamic_cast("Label", c) # NULL THEN Outcome(Cont, r, s)
  ELSE IF dynamic_cast("Value", c) # NULL THEN Outcome(Cont, r, s)
  ELSE IF dynamic_cast("Halt", c) # NULL THEN Outcome(Cont, r, s)
  ELSE Outcome(Error(UnhandledMessage), r, s)

handleLabelStop(c, r, s) ==
  IF dynamic_cast("Label", c) # NULL THEN Outcome(Stop, r, s)
  ELSE IF dynamic_cast("Value", c) # NULL THEN Outcome(Cont, r, s)
  ELSE IF dynamic_cast("Halt", c) # NULL THEN Outcome(Stop, r, s)
  ELSE Outcome(Error(UnhandledMessage), r, s)

handleValueUnhandled(c, r, s) ==
  IF dynamic_cast("Label", c) # NULL THEN Outcome(Cont, r, s)
  ELSE IF dynamic_cast("Halt", c) # NULL THEN Outcome(Stop, r, s)
  ELSE Outcome(Error(UnhandledMessage), r, s)

handleValuePush(c, r, s) ==
  IF dynamic_cast("Label", c) # NULL THEN Outcome(Cont, r, s)
  ELSE IF dynamic_cast("Value", c) # NULL THEN Outcome(Cont, r, Append(s, c.value))
  ELSE IF dynamic_cast("Halt", c) # NULL THEN Outcome(Stop, r, s)
  ELSE Outcome(Error(UnhandledMessage), r, s)

handleNullDeref(c, r, s) ==
  IF c = NULL THEN Outcome(NoDecision, r, s)
  ELSE IF dynamic_cast("Label", c) # NULL THEN Outcome(Cont, r, s)
  ELSE IF dynamic_cast("Value", c) # NULL THEN Outcome(Cont, r, s)
  ELSE IF dynamic_cast("Halt", c) # NULL THEN Outcome(Stop, r, s)
  ELSE Outcome(Error(UnhandledMessage), r, s)

handleStatic(c, r, s) ==
  IF returned # <<>> THEN Outcome(Stop, r, s)
  ELSE IF dynamic_cast("Label", c) # NULL THEN Outcome(Cont, r, s)
  ELSE IF dynamic_cast("Value", c) # NULL THEN Outcome(Cont, r, s)
  ELSE IF dynamic_cast("Halt", c) # NULL THEN Outcome(Stop, r, s)
  ELSE Outcome(Error(UnhandledMessage), r, s)

handlePayload(c, r, s) ==
  IF dynamic_cast("Label", c) # NULL THEN Outcome(Cont, r, s)
  ELSE IF dynamic_cast("Value", c) # NULL
       THEN Outcome(IF c.value = 0 THEN Stop ELSE Cont, r, s)
  ELSE IF dynamic_cast("Halt", c) # NULL THEN Outcome(Stop, r, s)
  ELSE Outcome(Error(UnhandledMessage), r, s)

\* handle(code, reg, stack).  reg and stack are by-value parameters and the
\* body touches neither, so the caller keeps the r and s it passed.
handle(c, r, s) ==
  IF dynamic_cast("Label", c) # NULL THEN Outcome(Cont, r, s)
  ELSE IF dynamic_cast("Value", c) # NULL THEN Outcome(Cont, r, s)
  ELSE IF dynamic_cast("Halt", c) # NULL THEN Outcome(Stop, r, s)
  ELSE Outcome(Error(UnhandledMessage), r, s)

\* One completed call: what was passed and what the caller had afterwards.
CallRecord(c, r, s, out) ==
  [code |-> c, reg |-> r, stack |-> s,
   action |-> out.action, regAfter |-> out.reg, stackAfter |-> out.stack]

\* ------------------------------------------------------------ call harness
\* The caller holds any instruction pointer, registers and stack.
Init ==
  /\ code \in CodePtrs
  /\ reg \in RegisterStates
  /\ stack \in Stacks
  /\ returned = <<>>
  /\ program = <<>>
  /\ run = "idle"

\* The caller calls handle on what it holds and keeps the decision.
Call ==
  /\ run = "idle"
  /\ Len(returned) < MaxCalls
  /\ LET out == handle(code, reg, stack)
     IN  /\ returned' = Append(returned, CallRecord(code, reg, stack, out))
         /\ reg' = out.reg
         /\ stack' = out.stack
  /\ UNCHANGED <<code, program, run>>

Next == Call

Spec == Init /\ [][Next]_vars

\* ------------------------------------------------------------ driving loop
\* A finite program of instruction objects, fresh registers, an empty stack.
LoopInit ==
  /\ program \in SeqsUpTo(Instructions, MaxProg)
  /\ code = NULL
  /\ reg = [pc |-> 0]
  /\ stack = <<>>
  /\ returned = <<>>
  /\ run = "running"

\* One turn of the loop: fetch program[pc], call handle once, act on the
\* decision: advance on Cont, end on Stop or Error.
Step ==
  /\ run = "running"
  /\ reg.pc < Len(program)
  /\ LET fetched == program[reg.pc + 1]
         out     == handle(fetched, reg, stack)
     IN  /\ code' = fetched
         /\ returned' = Append(returned, CallRecord(fetched, reg, stack, out))
         /\ stack' = out.stack
         /\ \/ /\ out.action.variant = "Cont"
               /\ reg' = [out.reg EXCEPT !.pc = @ + 1]
               /\ run' = "running"
            \/ /\ out.action.variant = "Stop"
               /\ reg' = out.reg
               /\ run' = "stopped"
            \/ /\ out.action.variant = "Error"
               /\ reg' = out.reg
               /\ run' = "errored"
  /\ UNCHANGED program

\* The program has no instruction left to fetch.
RunOff ==
  /\ run = "running"
  /\ reg.pc >= Len(program)
  /\ run' = "exhausted"
  /\ UNCHANGED <<code, reg, stack, returned, program>>

LoopNext == Step \/ RunOff

LoopSpec == LoopInit /\ [][LoopNext]_vars /\ WF_vars(LoopNext)

\* ------------------------------------------------------------- properties
Checks == {"Label", "Value", "Halt"}

\* The instruction pointer passes none of the three casts.
Unmodeled(c) == \A T \in Checks : dynamic_cast(T, c) = NULL

\* The dynamic type of what the pointer holds.
KindOf(c) == c.kind

Variants == {"Cont", "Stop", "Error"}

\* C1: every call on an instruction that is no Label, Value or Halt returns
\* Error, never Cont or Stop, and the Error carries the one non-empty
\* diagnostic "internal error: unhandled instruction".
C1_UnhandledIsError ==
  \A i \in DOMAIN returned :
    Unmodeled(returned[i].code) =>
      /\ returned[i].action.variant = "Error"
      /\ returned[i].action.message = "internal error: unhandled instruction"
      /\ returned[i].action.message # ""

C1_Witness ==
  \E i \in DOMAIN returned :
    /\ returned[i].code # NULL
    /\ KindOf(returned[i].code) = "Jump"
    /\ returned[i].action.variant = "Error"

\* C2: a call returns Stop if and only if its instruction is a Halt.
C2_StopIffHalt ==
  \A i \in DOMAIN returned :
    (returned[i].action.variant = "Stop") <=> (KindOf(returned[i].code) = "Halt")

C2_Witness ==
  \E i \in DOMAIN returned :
    /\ KindOf(returned[i].code) = "Halt"
    /\ returned[i].action = Stop
    /\ returned[i].stack # <<>>

\* C3: every call on a Label returns Cont, whatever the label's name, the
\* registers and the stack.
C3_LabelIsCont ==
  \A i \in DOMAIN returned :
    KindOf(returned[i].code) = "Label" => returned[i].action = Cont

C3_Witness ==
  \E i \in DOMAIN returned :
    /\ returned[i].code = [kind |-> "Label", name |-> "loop_start"]
    /\ returned[i].stack = <<>>
    /\ returned[i].action = Cont

\* C4: every call on a Value returns Cont, never Stop or Error, whatever the
\* payload, the registers and the stack.
C4_ValueIsCont ==
  \A i \in DOMAIN returned :
    KindOf(returned[i].code) = "Value" =>
      /\ returned[i].action = Cont
      /\ returned[i].action.variant \notin {"Stop", "Error"}

C4_Witness ==
  \E i \in DOMAIN returned :
    /\ returned[i].code = [kind |-> "Value", value |-> 42]
    /\ returned[i].stack = <<>>
    /\ returned[i].action = Cont

\* C5: a call leaves the caller's registers and operand stack as they were,
\* for every kind of instruction: same depth, same contents; a Value does
\* not push its payload.
C5_CallerStateUnchanged ==
  /\ \A i \in DOMAIN returned :
       /\ returned[i].regAfter = returned[i].reg
       /\ returned[i].stackAfter = returned[i].stack
       /\ Len(returned[i].stackAfter) = Len(returned[i].stack)
  /\ returned # <<>> =>
       /\ reg = returned[Len(returned)].reg
       /\ stack = returned[Len(returned)].stack

C5_Witness ==
  \E i \in DOMAIN returned :
    /\ returned[i].code = [kind |-> "Value", value |-> 42]
    /\ returned[i].stack = <<0>>
    /\ returned[i].stackAfter = <<0>>
    /\ stack = <<0>>

\* C6: handle is total: every call, a null instruction pointer included,
\* returns exactly one decision among Cont, Stop and Error, and a call is
\* always possible.
C6_Total ==
  /\ \A i \in DOMAIN returned : returned[i].action.variant \in Variants
  /\ (run = "idle" /\ Len(returned) < MaxCalls) => ENABLED Call

C6_Witness ==
  \E i \in DOMAIN returned :
    /\ returned[i].code = NULL
    /\ returned[i].action.variant = "Error"

FirstEnd(p) ==
  LET ends == {i \in DOMAIN p : KindOf(p[i]) \notin {"Label", "Value"}}
  IN  IF ends = {} THEN 0 ELSE CHOOSE i \in ends : \A k \in ends : i <= k

C8_Inv ==
  /\ Len(returned) <= Len(program)
  /\ \A i \in DOMAIN returned : returned[i].code = program[i]
  /\ \A i \in DOMAIN returned :
       (i < Len(returned) \/ run \in {"running", "exhausted"}) =>
         /\ KindOf(program[i]) \in {"Label", "Value"}
         /\ returned[i].action = Cont
  /\ run = "stopped" =>
       /\ KindOf(program[Len(returned)]) = "Halt"
       /\ returned[Len(returned)].action = Stop
  /\ run = "errored" =>
       /\ KindOf(program[Len(returned)]) \notin {"Label", "Value", "Halt"}
       /\ returned[Len(returned)].action.variant = "Error"
  /\ run \in {"stopped", "errored"} =>
       /\ Len(returned) = FirstEnd(program)
       /\ reg.pc + 1 = FirstEnd(program)
  /\ FirstEnd(program) # 0 =>
       /\ Len(returned) <= FirstEnd(program)
       /\ run # "exhausted"
  /\ run = "exhausted" => FirstEnd(program) = 0

\* C8: the driving loop dispatches the instructions in order, once each; the
\* run ends exactly at the first Halt (stopped) or unmodeled instruction
\* (errored); everything before it is a Label or Value that returned Cont;
\* nothing after it is dispatched; and the run does end.
C8_LoopEndsAtFirstEnd ==
  /\ []C8_Inv
  /\ <>(run # "running")
  /\ [](FirstEnd(program) # 0 =>
          <>(run \in {"stopped", "errored"} /\ Len(returned) = FirstEnd(program)))

C8_Witness ==
  /\ run = "errored"
  /\ Len(program) = 3
  /\ Len(returned) = 2
  /\ returned[1].action = Cont
  /\ KindOf(program[2]) = "Jump"

\* The orders in which the three checks can be tried.
CheckOrders ==
  {o \in [1 .. 3 -> Checks] : \A T \in Checks : \E k \in 1 .. 3 : o[k] = T}

\* The decision each check's branch returns.
Branch(T) == IF T = "Halt" THEN Stop ELSE Cont

\* The checks tried in the given order, the default Error branch last.
RECURSIVE tryChecks(_, _)
tryChecks(order, c) ==
  IF order = <<>> THEN Error(UnhandledMessage)
  ELSE IF dynamic_cast(Head(order), c) # NULL THEN Branch(Head(order))
  ELSE tryChecks(Tail(order), c)

\* C9: every order of the three checks, followed by the default branch,
\* gives the decision the call returned; the instruction passes at most one
\* check; the default branch is taken only after all three checks fail.
C9_OrderIrrelevant ==
  \A i \in DOMAIN returned :
    /\ \A o \in CheckOrders : tryChecks(o, returned[i].code) = returned[i].action
    /\ Cardinality({T \in Checks : dynamic_cast(T, returned[i].code) # NULL}) <= 1
    /\ returned[i].action.variant = "Error" => Unmodeled(returned[i].code)

C9_Witness ==
  /\ Cardinality(CheckOrders) = 6
  /\ \E i \in DOMAIN returned :
       /\ KindOf(returned[i].code) = "Halt"
       /\ returned[i].action = Stop
       /\ tryChecks(<<"Halt", "Value", "Label">>, returned[i].code) = Stop

\* C10: the decision depends only on the kind of the instruction: a call on
\* any instruction of the same kind, with any registers and stack, returns
\* the variant this call returned.
C10_KindOnly ==
  \A i \in DOMAIN returned :
    \A c \in CodePtrs, r \in RegisterStates, s \in Stacks :
      KindOf(c) = KindOf(returned[i].code) =>
        handle(c, r, s).action.variant = returned[i].action.variant

C10_Witness ==
  \E i \in DOMAIN returned :
    /\ returned[i].code = [kind |-> "Value", value |-> 0]
    /\ returned[i].stack = <<42, 0>>
    /\ returned[i].reg = [pc |-> 1]
    /\ returned[i].action = Cont
    /\ handle([kind |-> "Value", value |-> 42], [pc |-> 0], <<>>).action = Cont

====
